---------------------------- MODULE Spec2Model ----------------------------
(***************************************************************************)
(* Model of the inheritance / gift tax simulator (src/src/App.tsx).        *)
(*                                                                         *)
(* The App component holds four inputs (typeTransmission, lienParente,     *)
(* montantTransmis, donationsAnterieures) and two derived pieces of state  *)
(* (results, chartData) that a useEffect recomputes after every render in  *)
(* which one of the four inputs changed.                                   *)
(*                                                                         *)
(* Units.  Inputs, abattementApplique and baseTaxable are whole euros.     *)
(* Every rate of FISCAL_DATA is a whole number of percent, so `taux` is    *)
(* held in percent and droitsAPayer, montantNet and the chart values are   *)
(* held in centimes: euros * percent = centimes, exactly.  The source      *)
(* computes the same quantities in IEEE doubles; on the whole slider grid  *)
(* the double result, rounded to the centime, is the integer computed      *)
(* here.                                                                   *)
(***************************************************************************)
EXTENDS Integers, Sequences, FiniteSets, TLC

VARIABLES
    typeTransmission,      \* 'succession' | 'donation'          (App.tsx:80)
    lienParente,           \* string key into FISCAL_DATA        (App.tsx:81)
    montantTransmis,       \* euros                              (App.tsx:82)
    donationsAnterieures,  \* euros                              (App.tsx:83)
    results,               \* the record of setResults           (App.tsx:85)
    chartData,             \* the sequence of setChartData       (App.tsx:86)
    effectPending,         \* a render changed a dependency of the effect
                           \* and the effect has not run yet     (App.tsx:136)
    computedFrom,          \* history: the inputs read by the effect run
                           \* that last called setResults (NoInput before)
    email,                 \* sequence of characters            (App.tsx:87)
    isSending,             \*                                   (App.tsx:88)
    emailMessage,          \*                                   (App.tsx:89)
    request,               \* the fetch in flight, NoRequest if none
                           \*                                   (App.tsx:163)
    timers,                \* setTimeout callbacks not yet run  (App.tsx:179)
    emailEvent             \* history: the last step of the e-mail form,
                           \* `tick` flips at each of them

emailVars == << email, isSending, emailMessage, request, timers, emailEvent >>

vars == << typeTransmission, lienParente, montantTransmis,
           donationsAnterieures, results, chartData, effectPending,
           computedFrom, emailVars >>

inputs == << typeTransmission, lienParente, montantTransmis,
             donationsAnterieures >>

-----------------------------------------------------------------------------
(* Numeric helpers of the host language.                                   *)

\* `Infinity` of the last palier of every barème; only ever compared and
\* subtracted from, see TrancheWidth and MathMin.
Infinity == -1

\* euros -> centimes
Centimes == 100

MathMax(a, b) == IF a >= b THEN a ELSE b

\* Math.min(a, b) where b may be Infinity (a never is).
MathMin(a, b) == IF b = Infinity THEN a ELSE IF a <= b THEN a ELSE b

\* palier.tranche - derniereTranche; Infinity - x is Infinity.
TrancheWidth(tranche, derniereTranche) ==
    IF tranche = Infinity THEN Infinity ELSE tranche - derniereTranche

-----------------------------------------------------------------------------
(* Static data.                                                            *)

Palier(tranche, taux) == [tranche |-> tranche, taux |-> taux]

BaremeLigneDirecte ==
    << Palier(8072, 5), Palier(12109, 10), Palier(15932, 15),
       Palier(552324, 20), Palier(902838, 30), Palier(1805677, 40),
       Palier(Infinity, 45) >>

FISCAL_DATA ==
    ( "enfant"      :> [abattement |-> 100000, bareme |-> BaremeLigneDirecte] ) @@
    ( "conjoint"    :> [abattement |-> 80724,  bareme |-> BaremeLigneDirecte] ) @@
    ( "frere-soeur" :> [abattement |-> 15932,
                        bareme |-> << Palier(24430, 35), Palier(Infinity, 45) >>] ) @@
    ( "neveu-niece" :> [abattement |-> 7967,
                        bareme |-> << Palier(Infinity, 55) >>] ) @@
    ( "autre"       :> [abattement |-> 1594,
                        bareme |-> << Palier(Infinity, 60) >>] )

\* The two buttons and the five <option> values of the form.
TransmissionTypes == { "succession", "donation" }
LienOptions == { "enfant", "conjoint", "frere-soeur", "neveu-niece", "autre" }

\* The two range inputs.
MontantMin == 10000
MontantMax == 2000000
MontantStep == 10000
DonationsMin == 0
DonationsMax == 200000
DonationsStep == 1000

\* useState initial values.
MontantInitial == 300000
DonationsInitial == 0

-----------------------------------------------------------------------------
(* Bounds of the model: which slider positions are explored.               *)

\* the first MaxLowMontants positions of the montant slider
MaxLowMontants == 6
\* multiples of the initial montant, up to the slider's maximum
MaxMontantMultiples == 6
\* the first MaxLowDonations + 1 positions of the donations slider
MaxLowDonations == 2
\* a send is started only while fewer than MaxTimers message timers run
MaxTimers == 2

SliderMontants ==
    { v \in    { MontantMin + (k - 1) * MontantStep : k \in 1..MaxLowMontants }
          \cup { MontantInitial * k : k \in 1..MaxMontantMultiples }
          \cup { MontantMax } :
      /\ v >= MontantMin
      /\ v <= MontantMax
      /\ (v - MontantMin) % MontantStep = 0 }

SliderDonations ==
    { v \in    { DonationsMin + k * DonationsStep : k \in 0..MaxLowDonations }
          \cup { 7000, 9000, 16000, 75000, 81000, 93000, 98000, 100000 }
          \cup { DonationsMax } :
      /\ v >= DonationsMin
      /\ v <= DonationsMax
      /\ (v - DonationsMin) % DonationsStep = 0 }

-----------------------------------------------------------------------------
(* The calculation engine (the body of the effect).                        *)

NoInput == [type |-> "none", lien |-> "none", montant |-> 0, donations |-> 0]

CurrentInput ==
    [type |-> typeTransmission, lien |-> lienParente,
     montant |-> montantTransmis, donations |-> donationsAnterieures]

\* The condition of the exemption branch.
IsConjointSuccession_AnyType(type, lien) == lien = "conjoint"

IsConjointSuccession(type, lien) == type = "succession" /\ lien = "conjoint"

\* 1. abattement applicable
AbattementReel_NoFloor(abattementDeBase, donations) ==
    abattementDeBase - donations

AbattementReel_Added(abattementDeBase, donations) ==
    MathMax(0, abattementDeBase + donations)

AbattementReel(abattementDeBase, donations) ==
    MathMax(0, abattementDeBase - donations)

\* 2. base taxable
BaseTaxable_NoAbattement(montant, abattementReel) == MathMax(0, montant)

BaseTaxable(montant, abattementReel) == MathMax(0, montant - abattementReel)

\* 3. one turn of the loop over the barème
MontantDansLaTranche_Cumulative(montantRestantATaxer, tranche, derniereTranche) ==
    MathMin(montantRestantATaxer, tranche)

MontantDansLaTranche(montantRestantATaxer, tranche, derniereTranche) ==
    MathMin(montantRestantATaxer, TrancheWidth(tranche, derniereTranche))

\* droits += montantDansLaTranche * palier.taux   (centimes)
Accumulate_Assign(droits, montantDansLaTranche, taux) ==
    montantDansLaTranche * taux

Accumulate(droits, montantDansLaTranche, taux) ==
    droits + montantDansLaTranche * taux

RECURSIVE BracketLoop(_, _, _, _, _)
BracketLoop(bareme, i, droits, montantRestantATaxer, derniereTranche) ==
    IF i > Len(bareme) \/ montantRestantATaxer <= 0
    THEN droits
    ELSE LET palier == bareme[i]
             montantDansLaTranche ==
                 MontantDansLaTranche(montantRestantATaxer, palier.tranche,
                                      derniereTranche)
         IN  BracketLoop(bareme, i + 1,
                         Accumulate(droits, montantDansLaTranche, palier.taux),
                         montantRestantATaxer - montantDansLaTranche,
                         palier.tranche)

Droits(bareme, baseTaxable) == BracketLoop(bareme, 1, 0, baseTaxable, 0)

\* montantTransmis - droits   (centimes)
MontantNetRecu_Swapped(montant, droits) == droits - montant * Centimes

MontantNetRecu_Gross(montant, droits) == montant * Centimes

MontantNetRecu(montant, droits) == montant * Centimes - droits

\* The record and the chart of the exemption branch.
ExemptResults(montant) ==
    [droitsAPayer |-> 0, montantNet |-> montant * Centimes,
     abattementApplique |-> montant, baseTaxable |-> 0]

ExemptChart(montant) ==
    << [name |-> "Montant Net Recu", value |-> montant * Centimes] >>

\* The record and the chart of the general branch.
ComputedResults(fiscalInfo, montant, donations) ==
    LET abattementReel == AbattementReel(fiscalInfo.abattement, donations)
        baseTaxable    == BaseTaxable(montant, abattementReel)
        droits         == Droits(fiscalInfo.bareme, baseTaxable)
    IN  [droitsAPayer |-> droits,
         montantNet |-> MontantNetRecu(montant, droits),
         abattementApplique |-> abattementReel,
         baseTaxable |-> baseTaxable]

ComputedChart(r) ==
    << [name |-> "Montant Net Recu", value |-> r.montantNet],
       [name |-> "Droits a payer", value |-> r.droitsAPayer] >>

-----------------------------------------------------------------------------
(* The e-mail form (handleEmailSubmit) and the send function.              *)
(*                                                                         *)
(* An address is a sequence of one-character strings.  A message is a      *)
(* record: its text and, for the confirmation, the address it quotes.      *)

\* characters the explored addresses are written with; " " is the only
\* white space among them
NonSpace(c) == c # " "

\* /\S+@\S+\.\S+/.test(s): an unanchored search for a non-space run, "@",
\* a non-space run, ".", a non-space character.
RegexTest_AtOnly(s) == \E i \in 1..Len(s) : s[i] = "@"

RegexTest(s) ==
    \E i \in 1..Len(s), j \in 1..Len(s) :
        /\ i > 1
        /\ NonSpace(s[i - 1])
        /\ s[i] = "@"
        /\ j > i + 1
        /\ \A k \in (i + 1)..(j - 1) : NonSpace(s[k])
        /\ s[j] = "."
        /\ j < Len(s)
        /\ NonSpace(s[j + 1])

\* !email || !regex.test(email)
EmailRejected(s) == s = << >> \/ ~RegexTest(s)

Message(text, to) == [text |-> text, to |-> to]
MsgEmpty == Message("", << >>)
MsgInvalid == Message("Veuillez saisir une adresse e-mail valide.", << >>)
MsgSent(to) == Message("Votre simulation a bien ete envoyee a ", to)
MsgError == Message("Une erreur est survenue. Veuillez reessayer.", << >>)

NoRequest == [method |-> "none"]

\* The body of the POST; the amounts stand for the strings toLocaleString
\* formats them to.
SimulationData ==
    [objectifs |->
        [typeTransmission |->
            IF typeTransmission = "succession" THEN "Succession"
                                               ELSE "Donation",
         lienParente |-> lienParente,
         montantTransmis |-> montantTransmis,
         donationsAnterieures |-> donationsAnterieures],
     resultats |->
        [droitsAPayer |-> results.droitsAPayer,
         montantNet |-> results.montantNet,
         abattementApplique |-> results.abattementApplique]]

FetchRequest ==
    [method |-> "POST", email |-> email, data |-> SimulationData,
     theme |-> "Succession"]

\* exports.handler of send-simulation.js: the status code it returns;
\* resendOk is whether resend.emails.send resolved.
Handler(event, resendOk) ==
    IF event.method # "POST" THEN 405
    ELSE IF \/ "data" \notin DOMAIN event
            \/ "objectifs" \notin DOMAIN event.data
            \/ "resultats" \notin DOMAIN event.data THEN 500
    ELSE IF ~resendOk THEN 500
    ELSE 200

\* response.ok
ResponseOk_Always(status) == TRUE

ResponseOk(status) == status >= 200 /\ status <= 299

\* the step of the e-mail form that has just run
Event(kind, status) ==
    [kind |-> kind, status |-> status, tick |-> 1 - emailEvent.tick]

-----------------------------------------------------------------------------
(* Actions.                                                                *)
(*                                                                         *)
(* An event handler runs only once the effects of the previous render have *)
(* been flushed, so the setters are guarded by ~effectPending.  Setting a  *)
(* state to the value it has does not re-render and schedules no effect.   *)

Init ==
    /\ typeTransmission = "succession"
    /\ lienParente = "enfant"
    /\ montantTransmis = MontantInitial
    /\ donationsAnterieures = DonationsInitial
    /\ results = [droitsAPayer |-> 0, montantNet |-> 0,
                  abattementApplique |-> 0, baseTaxable |-> 0]
    /\ chartData = << >>
    /\ effectPending = TRUE      \* the effect runs after the first render
    /\ computedFrom = NoInput
    /\ email = << >>
    /\ isSending = FALSE
    /\ emailMessage = MsgEmpty
    /\ request = NoRequest
    /\ timers = 0
    /\ emailEvent = [kind |-> "none", status |-> 0, tick |-> 0]

setTypeTransmission(values) ==
    /\ ~effectPending
    /\ \E v \in values :
          /\ typeTransmission' = v
          /\ effectPending' = (v # typeTransmission)
    /\ UNCHANGED << lienParente, montantTransmis, donationsAnterieures,
                    results, chartData, computedFrom, emailVars >>

setLienParente(values) ==
    /\ ~effectPending
    /\ \E v \in values :
          /\ lienParente' = v
          /\ effectPending' = (v # lienParente)
    /\ UNCHANGED << typeTransmission, montantTransmis, donationsAnterieures,
                    results, chartData, computedFrom, emailVars >>

setMontantTransmis(values) ==
    /\ ~effectPending
    /\ \E v \in values :
          /\ montantTransmis' = v
          /\ effectPending' = (v # montantTransmis)
    /\ UNCHANGED << typeTransmission, lienParente, donationsAnterieures,
                    results, chartData, computedFrom, emailVars >>

setDonationsAnterieures(values) ==
    /\ ~effectPending
    /\ \E v \in values :
          /\ donationsAnterieures' = v
          /\ effectPending' = (v # donationsAnterieures)
    /\ UNCHANGED << typeTransmission, lienParente, montantTransmis,
                    results, chartData, computedFrom, emailVars >>

\* The effect, exemption branch.
EffectExempt ==
    /\ effectPending
    /\ IsConjointSuccession(typeTransmission, lienParente)
    /\ results' = ExemptResults(montantTransmis)
    /\ chartData' = ExemptChart(montantTransmis)
    /\ computedFrom' = CurrentInput
    /\ effectPending' = FALSE
    /\ UNCHANGED << inputs, emailVars >>

\* The effect, `if (!fiscalInfo) return;`.
EffectNoFiscalInfo ==
    /\ effectPending
    /\ ~IsConjointSuccession(typeTransmission, lienParente)
    /\ lienParente \notin DOMAIN FISCAL_DATA
    /\ effectPending' = FALSE
    /\ UNCHANGED << inputs, results, chartData, computedFrom, emailVars >>

\* The effect, general branch.
EffectCompute_ResultsOnly ==
    /\ effectPending
    /\ ~IsConjointSuccession(typeTransmission, lienParente)
    /\ lienParente \in DOMAIN FISCAL_DATA
    /\ results' = ComputedResults(FISCAL_DATA[lienParente], montantTransmis,
                                  donationsAnterieures)
    /\ computedFrom' = CurrentInput
    /\ effectPending' = FALSE
    /\ UNCHANGED << inputs, chartData, emailVars >>

EffectCompute ==
    /\ effectPending
    /\ ~IsConjointSuccession(typeTransmission, lienParente)
    /\ lienParente \in DOMAIN FISCAL_DATA
    /\ LET r == ComputedResults(FISCAL_DATA[lienParente], montantTransmis,
                                donationsAnterieures)
       IN  /\ results' = r
           /\ chartData' = ComputedChart(r)
    /\ computedFrom' = CurrentInput
    /\ effectPending' = FALSE
    /\ UNCHANGED << inputs, emailVars >>

RunEffect == EffectExempt \/ EffectNoFiscalInfo \/ EffectCompute

calcVars == << inputs, results, chartData, effectPending, computedFrom >>

\* onChange of the address field; the field is disabled while sending.
setEmail(values) ==
    /\ ~effectPending
    /\ ~isSending
    /\ \E v \in values : email' = v
    /\ UNCHANGED << calcVars, isSending, emailMessage, request, timers,
                    emailEvent >>

\* handleEmailSubmit, the address is refused.
SubmitRejected ==
    /\ ~effectPending
    /\ ~isSending                 \* the form's controls are disabled
    /\ EmailRejected(email)
    /\ emailMessage' = MsgInvalid
    /\ emailEvent' = Event("submit", 0)
    /\ UNCHANGED << calcVars, email, isSending, request, timers >>

\* handleEmailSubmit up to `await fetch(...)`.
SubmitSend ==
    /\ ~effectPending
    /\ ~isSending
    /\ timers < MaxTimers
    /\ ~EmailRejected(email)
    /\ isSending' = TRUE
    /\ emailMessage' = MsgEmpty
    /\ request' = FetchRequest
    /\ emailEvent' = Event("submit", 0)
    /\ UNCHANGED << calcVars, email, timers >>

handleEmailSubmit == SubmitRejected \/ SubmitSend

\* `finally`
Finally ==
    /\ isSending' = FALSE
    /\ timers' = timers + 1
    /\ request' = NoRequest

\* handleEmailSubmit after the await: the function answered.
FetchResolved ==
    /\ request # NoRequest
    /\ \E resendOk \in BOOLEAN :
          LET status == Handler(request, resendOk)
          IN  /\ IF ResponseOk(status)
                 THEN /\ emailMessage' = MsgSent(request.email)
                      /\ email' = << >>
                 ELSE /\ emailMessage' = MsgError
                      /\ email' = email
              /\ emailEvent' = Event("responded", status)
    /\ Finally
    /\ UNCHANGED calcVars

\* handleEmailSubmit after the await: fetch rejected (network error).
FetchRejected ==
    /\ request # NoRequest
    /\ emailMessage' = MsgError
    /\ emailEvent' = Event("rejected", 0)
    /\ Finally
    /\ UNCHANGED << calcVars, email >>

\* setTimeout(() => setEmailMessage(''), 5000)
TimerFires ==
    /\ timers > 0
    /\ emailMessage' = MsgEmpty
    /\ timers' = timers - 1
    /\ UNCHANGED << calcVars, email, isSending, request, emailEvent >>

\* The form as the browser drives it: the offered options, the slider grid.
Next ==
    \/ setTypeTransmission(TransmissionTypes)
    \/ setLienParente(LienOptions)
    \/ setMontantTransmis(SliderMontants)
    \/ setDonationsAnterieures(SliderDonations)
    \/ EffectExempt
    \/ EffectCompute

Spec == Init /\ [][Next]_vars

-----------------------------------------------------------------------------
(* The handlers as their types admit them.  lienParente is a `string` and  *)
(* the sliders hand over whatever parseFloat returns: min, max and the     *)
(* option list are attributes of the DOM elements, not checks of the       *)
(* handlers, and the effect itself guards against an unknown key with      *)
(* `if (!fiscalInfo) return;`.  SpecOpen drives the same handlers with     *)
(* values outside the form's range.                                        *)

OpenLiens == LienOptions \cup { "inconnu" }
OpenMontants == { MontantMin, MontantInitial, 0 - MontantStep }
OpenDonations == { DonationsInitial, 9000, 0 - DonationsStep }

NextOpen ==
    \/ setTypeTransmission(TransmissionTypes)
    \/ setLienParente(OpenLiens)
    \/ setMontantTransmis(OpenMontants)
    \/ setDonationsAnterieures(OpenDonations)
    \/ RunEffect

SpecOpen == Init /\ [][NextOpen]_vars

-----------------------------------------------------------------------------
(* The e-mail form together with the calculation, over a few positions of  *)
(* the form.                                                               *)

EmailInputs ==
    { << >>,
      << "a", "@", "b" >>,
      << "a", ".", "b" >>,
      << "a", " ", "@", "b", ".", "c" >>,
      << "a", "@", "b", ".", "c" >>,
      << "d", "@", "e", ".", "f" >> }

EmailLiens == { "enfant", "conjoint" }
EmailMontants == { MontantMin, MontantInitial }

NextEmail ==
    \/ setTypeTransmission(TransmissionTypes)
    \/ setLienParente(EmailLiens)
    \/ setMontantTransmis(EmailMontants)
    \/ EffectExempt
    \/ EffectCompute
    \/ setEmail(EmailInputs)
    \/ SubmitRejected
    \/ SubmitSend
    \/ FetchResolved
    \/ FetchRejected
    \/ TimerFires

SpecEmail == Init /\ [][NextEmail]_vars

-----------------------------------------------------------------------------
(* Reference definitions used by the properties.                           *)

\* inheritance + spouse, written out
ExemptInput(in) == in.type = "succession" /\ in.lien = "conjoint"

\* a result computed by the general branch is standing
NonExemptResult == computedFrom # NoInput /\ ~ExemptInput(computedFrom)

\* min(base, upperBound_i), the last bracket being unbounded
CappedAt(base, upperBound) ==
    IF upperBound = Infinity THEN base
    ELSE IF base <= upperBound THEN base ELSE upperBound

\* sum over the brackets i..Len of rate_i * max(0, min(base, ub_i) - ub_{i-1})
RECURSIVE ReferenceTaxFrom(_, _, _)
ReferenceTaxFrom(bareme, i, base) ==
    IF i > Len(bareme) THEN 0
    ELSE LET lower  == IF i = 1 THEN 0 ELSE bareme[i - 1].tranche
             slice  == CappedAt(base, bareme[i].tranche) - lower
         IN  bareme[i].taux * (IF slice > 0 THEN slice ELSE 0)
               + ReferenceTaxFrom(bareme, i + 1, base)

ReferenceTax(bareme, base) == ReferenceTaxFrom(bareme, 1, base)

FloorAtZero(x) == IF x > 0 THEN x ELSE 0

-----------------------------------------------------------------------------
\* C1: in every non-exempt result with taxableBase >= 0, taxDue is the
\* progressive-bracket reference sum over the category's brackets; for a
\* sibling with taxableBase 34068 it is 24430 * 0.35 + 9638 * 0.45.
C1_TaxDueIsBracketReference ==
    (NonExemptResult /\ results.baseTaxable >= 0) =>
        /\ results.droitsAPayer =
               ReferenceTax(FISCAL_DATA[computedFrom.lien].bareme,
                            results.baseTaxable)
        /\ (computedFrom.lien = "frere-soeur" /\ results.baseTaxable = 34068)
               => results.droitsAPayer = 24430 * 35 + 9638 * 45

C1_Witness ==
    /\ ~effectPending
    /\ computedFrom = CurrentInput
    /\ lienParente = "frere-soeur"
    /\ montantTransmis = 50000
    /\ results.baseTaxable = 34068
    /\ results.droitsAPayer = 1288760

\* C2: inheritance to a spouse is fully exempt whatever the amounts
\* (taxDue 0, net = transfer, allowanceApplied = transfer, taxableBase 0);
\* a gift to a spouse is not exempt and uses the spouse allowance 80724
\* and the spouse bracket schedule.
C2_ExemptionOnlySpouseInheritance ==
    (computedFrom # NoInput) =>
        /\ ExemptInput(computedFrom) =>
               results = [droitsAPayer |-> 0,
                          montantNet |-> computedFrom.montant * Centimes,
                          abattementApplique |-> computedFrom.montant,
                          baseTaxable |-> 0]
        /\ (computedFrom.type = "donation" /\ computedFrom.lien = "conjoint") =>
               /\ results.abattementApplique =
                      FloorAtZero(80724 - computedFrom.donations)
               /\ results.baseTaxable =
                      FloorAtZero(computedFrom.montant
                                    - results.abattementApplique)
               /\ results.droitsAPayer =
                      ReferenceTax(FISCAL_DATA["conjoint"].bareme,
                                   results.baseTaxable)
               /\ results.baseTaxable > 0 => results.droitsAPayer > 0
               /\ results.montantNet =
                      computedFrom.montant * Centimes - results.droitsAPayer

C2_Witness ==
    /\ ~effectPending
    /\ computedFrom = CurrentInput
    /\ typeTransmission = "succession"
    /\ lienParente = "conjoint"
    /\ donationsAnterieures > 0
    /\ montantTransmis > FISCAL_DATA["conjoint"].abattement
    /\ results.droitsAPayer = 0
    /\ results.montantNet = montantTransmis * Centimes
    /\ results.abattementApplique = montantTransmis

\* C3: in every non-exempt result allowanceApplied = max(0, allowance -
\* priorGifts) and taxableBase = max(0, transfer - allowanceApplied); prior
\* gifts at or above the allowance give allowanceApplied 0 and a taxable
\* base of exactly the transfer (other, 10000, 9000: 0, 10000, tax 6000).
C3_AllowanceExhaustion ==
    NonExemptResult =>
        LET allowance == FISCAL_DATA[computedFrom.lien].abattement
        IN  /\ results.abattementApplique =
                   FloorAtZero(allowance - computedFrom.donations)
            /\ results.baseTaxable =
                   FloorAtZero(computedFrom.montant - results.abattementApplique)
            /\ (computedFrom.donations >= allowance /\ computedFrom.montant >= 0)
                   => /\ results.abattementApplique = 0
                      /\ results.baseTaxable = computedFrom.montant
            /\ (computedFrom.montant >= 0)
                   => results.baseTaxable <= computedFrom.montant
            /\ (computedFrom.lien = "autre" /\ computedFrom.montant = 10000
                  /\ computedFrom.donations = 9000)
                   => /\ results.abattementApplique = 0
                      /\ results.baseTaxable = 10000
                      /\ results.droitsAPayer = 6000 * Centimes

C3_Witness ==
    /\ ~effectPending
    /\ computedFrom = CurrentInput
    /\ typeTransmission = "succession"
    /\ lienParente = "autre"
    /\ montantTransmis = 10000
    /\ donationsAnterieures = 9000
    /\ results.abattementApplique = 0
    /\ results.baseTaxable = 10000
    /\ results.droitsAPayer = 600000

GiftToChild300000 ==
    [type |-> "donation", lien |-> "enfant", montant |-> 300000,
     donations |-> 0]

\* C4 as stated: a gift of 300000 to a child without prior gifts yields
\* allowanceApplied 100000, taxableBase 200000, taxDue 35974.50 and
\* netAmountReceived 264025.50.
C4_GiftToChildAsStated ==
    (computedFrom = GiftToChild300000) =>
        /\ results.abattementApplique = 100000
        /\ results.baseTaxable = 200000
        /\ results.droitsAPayer = 3597450
        /\ results.montantNet = 26402550

\* C4 amended: a gift of 300000 to a child without prior gifts yields
\* allowanceApplied 100000, taxableBase 200000, taxDue 38194.35
\* (8072 * 5% + 4037 * 10% + 3823 * 15% + 184068 * 20%) and
\* netAmountReceived 261805.65.
C4_GiftToChild ==
    (computedFrom = GiftToChild300000) =>
        /\ results.abattementApplique = 100000
        /\ results.baseTaxable = 200000
        /\ results.droitsAPayer =
               8072 * 5 + 4037 * 10 + 3823 * 15 + 184068 * 20
        /\ results.droitsAPayer = 3819435
        /\ results.montantNet = 26180565

C4_Witness ==
    /\ ~effectPending
    /\ CurrentInput = GiftToChild300000
    /\ computedFrom = GiftToChild300000
    /\ results.droitsAPayer = 3819435

\* C5 as stated: in every result, the exempt case included, allowanceApplied
\* lies between 0 and the allowance of the category's fiscal profile.
C5_AllowanceWithinProfileAsStated ==
    (computedFrom # NoInput /\ computedFrom.montant >= 0
       /\ computedFrom.donations >= 0) =>
        /\ results.abattementApplique >= 0
        /\ results.abattementApplique
               <= FISCAL_DATA[computedFrom.lien].abattement

\* C5 amended: in every non-exempt result allowanceApplied lies between 0
\* and the allowance of the category's fiscal profile; in the exempt case
\* allowanceApplied is the transfer amount, whatever the spouse allowance.
C5_AllowanceWithinProfile ==
    (computedFrom # NoInput /\ computedFrom.montant >= 0
       /\ computedFrom.donations >= 0) =>
        /\ results.abattementApplique >= 0
        /\ ~ExemptInput(computedFrom) =>
               results.abattementApplique
                  <= FISCAL_DATA[computedFrom.lien].abattement
        /\ ExemptInput(computedFrom) =>
               results.abattementApplique = computedFrom.montant

C5_Witness ==
    /\ ~effectPending
    /\ computedFrom = CurrentInput
    /\ ~ExemptInput(CurrentInput)
    /\ donationsAnterieures > 0
    /\ results.abattementApplique > 0
    /\ results.abattementApplique < FISCAL_DATA[lienParente].abattement

\* C6: without prior gifts and outside the exempt case, taxDue never
\* decreases when the transfer amount grows: a recomputation for the same
\* type and category with a transfer at least as large yields a taxDue at
\* least as large.
C6_TaxMonotoneInTransfer ==
    [][ ( /\ computedFrom # NoInput
          /\ computedFrom' # NoInput
          /\ ~ExemptInput(computedFrom)
          /\ computedFrom'.type = computedFrom.type
          /\ computedFrom'.lien = computedFrom.lien
          /\ computedFrom.donations = 0
          /\ computedFrom'.donations = 0
          /\ computedFrom.montant <= computedFrom'.montant )
        => results.droitsAPayer <= results'.droitsAPayer ]_vars

\* a tax is standing and the transfer has just been raised
C6_Witness ==
    /\ effectPending
    /\ NonExemptResult
    /\ computedFrom.type = typeTransmission
    /\ computedFrom.lien = lienParente
    /\ computedFrom.donations = 0
    /\ donationsAnterieures = 0
    /\ computedFrom.montant < montantTransmis
    /\ results.droitsAPayer > 0

\* C7: for non-negative amounts the four output fields are non-negative
\* and taxDue never exceeds the transfer amount.
C7_OutputsNonNegative ==
    (computedFrom # NoInput /\ computedFrom.montant >= 0
       /\ computedFrom.donations >= 0) =>
        /\ results.droitsAPayer >= 0
        /\ results.montantNet >= 0
        /\ results.abattementApplique >= 0
        /\ results.baseTaxable >= 0
        /\ results.droitsAPayer <= computedFrom.montant * Centimes

C7_Witness ==
    /\ ~effectPending
    /\ computedFrom = CurrentInput
    /\ lienParente = "autre"
    /\ montantTransmis = MontantMax
    /\ donationsAnterieures = DonationsMax
    /\ results.droitsAPayer = MontantMax * 60
    /\ results.montantNet = MontantMax * 40

\* C8: in every non-exempt result netAmountReceived + taxDue is the
\* transfer amount.
C8_Conservation ==
    NonExemptResult =>
        results.montantNet + results.droitsAPayer
           = computedFrom.montant * Centimes

C8_Witness ==
    /\ ~effectPending
    /\ computedFrom = CurrentInput
    /\ ~ExemptInput(CurrentInput)
    /\ results.droitsAPayer > 0
    /\ results.montantNet > 0
    /\ results.montantNet < montantTransmis * Centimes

\* C9: once the computation for a category outside the registry has run,
\* no result computed from other inputs is left standing for it.
C9_UnknownCategoryLeavesNoResult ==
    (~effectPending /\ lienParente \notin DOMAIN FISCAL_DATA) =>
        computedFrom = NoInput

\* C10: no result record is ever produced from a negative transfer amount
\* or a negative prior-gifts amount.
C10_NegativeAmountRejected ==
    (computedFrom # NoInput) =>
        /\ computedFrom.montant >= 0
        /\ computedFrom.donations >= 0

\* C11: the four result fields and the chart always come from one and the
\* same input tuple (the one of the last recomputation; the initial zero
\* record and empty chart before the first), never from a mix of two, and
\* once the recomputation for the latest change has run that tuple is the
\* current input.
C11_ResultReplacedAtOnce ==
    /\ (computedFrom = NoInput) =>
          /\ results = [droitsAPayer |-> 0, montantNet |-> 0,
                        abattementApplique |-> 0, baseTaxable |-> 0]
          /\ chartData = << >>
    /\ (computedFrom # NoInput /\ ExemptInput(computedFrom)) =>
          /\ results = [droitsAPayer |-> 0,
                        montantNet |-> computedFrom.montant * Centimes,
                        abattementApplique |-> computedFrom.montant,
                        baseTaxable |-> 0]
          /\ chartData =
                << [name |-> "Montant Net Recu",
                    value |-> computedFrom.montant * Centimes] >>
    /\ NonExemptResult =>
          LET allowance == FloorAtZero(FISCAL_DATA[computedFrom.lien].abattement
                                         - computedFrom.donations)
              base      == FloorAtZero(computedFrom.montant - allowance)
              tax       == ReferenceTax(FISCAL_DATA[computedFrom.lien].bareme,
                                        base)
              net       == computedFrom.montant * Centimes - tax
          IN  /\ results = [droitsAPayer |-> tax, montantNet |-> net,
                            abattementApplique |-> allowance,
                            baseTaxable |-> base]
              /\ chartData =
                    << [name |-> "Montant Net Recu", value |-> net],
                       [name |-> "Droits a payer", value |-> tax] >>
    /\ ~effectPending => computedFrom = CurrentInput

\* every input has been changed and the result recomputed
C11_Witness ==
    /\ ~effectPending
    /\ computedFrom = CurrentInput
    /\ typeTransmission = "donation"
    /\ lienParente = "frere-soeur"
    /\ montantTransmis = 50000
    /\ donationsAnterieures = 9000
    /\ results.abattementApplique = 6932
    /\ Len(chartData) = 2
    /\ chartData[2].value = results.droitsAPayer
    /\ results.droitsAPayer > 0

\* addresses that are empty or lack an "@", a "." after it, or a character
\* right before the "@"
MalformedAddresses ==
    { << >>,
      << "a", "@", "b" >>,
      << "a", ".", "b" >>,
      << "a", " ", "@", "b", ".", "c" >> }

\* C12: a submit of the e-mail form with an empty or malformed address sets
\* a message and nothing else: no request is issued, isSending stays false,
\* the result, the inputs and the address are unchanged.
C12_MalformedAddressShortCircuits ==
    [][ ( /\ emailEvent' # emailEvent
          /\ emailEvent'.kind = "submit"
          /\ email \in MalformedAddresses )
        => /\ emailMessage' = MsgInvalid
           /\ emailMessage'.text # ""
           /\ request = NoRequest
           /\ request' = NoRequest
           /\ ~isSending
           /\ ~isSending'
           /\ results' = results
           /\ chartData' = chartData
           /\ email' = email
           /\ UNCHANGED inputs ]_vars

C12_Witness ==
    /\ emailEvent.kind = "submit"
    /\ email = << "a", "@", "b" >>
    /\ emailMessage = MsgInvalid
    /\ ~isSending
    /\ request = NoRequest
    /\ computedFrom = CurrentInput
    /\ results.droitsAPayer > 0

\* the send failed: fetch rejected, or the reply is outside 200..299
SendFailed(e) ==
    \/ e.kind = "rejected"
    \/ e.kind = "responded" /\ (e.status < 200 \/ e.status > 299)

\* C13: when the send settles, isSending returns to false and the result
\* and the inputs are unchanged; when it failed (network error or non-OK
\* reply) the error message is shown and the address is kept for a retry.
\* isSending is true exactly while a request is in flight.
C13_SendFailureRecovered ==
    [][ /\ isSending' = (request' # NoRequest)
        /\ ( /\ emailEvent' # emailEvent
             /\ emailEvent'.kind \in { "rejected", "responded" } )
           => /\ isSending
              /\ ~isSending'
              /\ request' = NoRequest
              /\ results' = results
              /\ chartData' = chartData
              /\ UNCHANGED inputs
              /\ SendFailed(emailEvent') =>
                    /\ emailMessage' = MsgError
                    /\ email' = email
                    /\ email' \notin MalformedAddresses ]_vars

C13_Witness ==
    /\ emailEvent.kind = "responded"
    /\ emailEvent.status = 500
    /\ emailMessage = MsgError
    /\ ~isSending
    /\ request = NoRequest
    /\ email = << "a", "@", "b", ".", "c" >>
    /\ computedFrom = CurrentInput
    /\ results.droitsAPayer > 0

=============================================================================
